---------------------------- MODULE Spec2Model ----------------------------
(***************************************************************************)
(* A model of src/src/index.ts: the Cloudflare email worker that extracts  *)
(* a text snippet from a raw MIME message (decodeContent,                   *)
(* extractEmailBody) and posts it to a Discord channel (the email          *)
(* handler).                                                                *)
(*                                                                          *)
(* A JavaScript string is a sequence of one-character strings, so that the *)
(* regular expressions of the source are computed character by character.  *)
(* Positions are 1-based; where indexOf returns -1 the model returns 0.    *)
(* A character above U+007E is written "U+00XX".                            *)
(***************************************************************************)
EXTENDS Integers, Sequences, FiniteSets, TLC

(***************************************************************************)
(* Characters and the string primitives of the runtime                     *)
(***************************************************************************)

\* "ABCDEFGHIJKLMNOPQRSTUVWXYZ"
UpperChars == <<"A","B","C","D","E","F","G","H","I","J","K","L","M","N","O","P","Q","R","S","T","U",
        "V","W","X","Y","Z">>
\* "abcdefghijklmnopqrstuvwxyz"
LowerChars == <<"a","b","c","d","e","f","g","h","i","j","k","l","m","n","o","p","q","r","s","t","u",
        "v","w","x","y","z">>
DigitChars == <<"0","1","2","3","4","5","6","7","8","9">>
\* "0123456789ABCDEF"
HexDigits == <<"0","1","2","3","4","5","6","7","8","9","A","B","C","D","E","F">>
\* The printable ASCII characters, code 32 first (code 96 is written "U+0060").
Ascii == <<" ","!","\"","#","$","%","&","'","(",")","*","+",",","-",".","/","0","1","2","3","4","5",
        "6","7","8","9",":",";","<","=",">","?","@","A","B","C","D","E","F","G","H","I","J","K","L",
        "M","N","O","P","Q","R","S","T","U","V","W","X","Y","Z","[","\\","]","^","_">> \o <<"U+0060">>
         \o <<"a","b","c","d","e","f","g","h","i","j","k","l","m","n","o","p","q","r","s","t","u",
                 "v","w","x","y","z","{","|","}","~">>
\* "ABCDEFGHIJKLMNOPQRSTUVWXYZabcdefghijklmnopqrstuvwxyz0123456789+/"
B64Alphabet == <<"A","B","C","D","E","F","G","H","I","J","K","L","M","N","O","P","Q","R","S","T",
        "U","V","W","X","Y","Z","a","b","c","d","e","f","g","h","i","j","k","l","m","n","o","p","q",
        "r","s","t","u","v","w","x","y","z","0","1","2","3","4","5","6","7","8","9","+","/">>

Range(s) == {s[k] : k \in 1..Len(s)}

\* The characters the class \s matches (those of the model's alphabet).
WhiteSpace == {" ", "\t", "\r", "\n"}
\* The line terminators: what . does not match and what ^ (flag m) follows.
LineTerminators == {"\r", "\n"}
CRLF == <<"\r","\n">>
CRLFCRLF == <<"\r","\n","\r","\n">>

LowerMap == [c \in Range(UpperChars) |-> LowerChars[CHOOSE k \in 1..26 : UpperChars[k] = c]]
Lower(c) == IF c \in DOMAIN LowerMap THEN LowerMap[c] ELSE c
\* String.prototype.toLowerCase
toLowerCase(s) == [k \in 1..Len(s) |-> Lower(s[k])]

Min(S) == CHOOSE x \in S : \A y \in S : x <= y
Max(S) == 0 - Min({0 - x : x \in S})

\* s.substring(p - 1): the rest of s from position p.
From(s, p) == SubSeq(s, p, Len(s))

\* lit occurs in s at position p.
MatchLit(s, p, lit) ==
    /\ p >= 1
    /\ p + Len(lit) - 1 <= Len(s)
    /\ \A k \in 1..Len(lit) : s[p + k - 1] = lit[k]

\* lit (in lower case) occurs in s at position p, letter case ignored (flag i).
MatchLitCI(s, p, lit) ==
    /\ p >= 1
    /\ p + Len(lit) - 1 <= Len(s)
    /\ \A k \in 1..Len(lit) : Lower(s[p + k - 1]) = lit[k]

\* String.prototype.indexOf: the first position of lit in s, 0 when there is none.
IndexOf(s, lit) ==
    LET hits == {p \in 1..(Len(s) - Len(lit) + 1) : MatchLit(s, p, lit)}
    IN  IF hits = {} THEN 0 ELSE Min(hits)

\* String.prototype.includes
Includes(s, lit) == IndexOf(s, lit) # 0

\* The end of the longest run of characters of class C that starts at p:
\* the first position at or after p whose character is outside C.
SpanEnd(s, p, C) ==
    LET stops == {q \in p..Len(s) : s[q] \notin C}
    IN  IF stops = {} THEN Len(s) + 1 ELSE Min(stops)

\* The same for the complement class [^...].
SpanEndNot(s, p, C) ==
    LET stops == {q \in p..Len(s) : s[q] \in C}
    IN  IF stops = {} THEN Len(s) + 1 ELSE Min(stops)

\* String.prototype.trim
Trim(s) ==
    LET keep == {k \in 1..Len(s) : s[k] \notin WhiteSpace}
    IN  IF keep = {} THEN <<>> ELSE SubSeq(s, Min(keep), Max(keep))

\* s.replace(/\s/g, "")
StripWhiteSpace(s) == SelectSeq(s, LAMBDA c : c \notin WhiteSpace)

\* String.fromCharCode for a code below 256.
FromCharCode(n) ==
    IF n \in 32..126 THEN Ascii[n - 31]
    ELSE IF n = 9 THEN "\t"
    ELSE IF n = 10 THEN "\n"
    ELSE IF n = 13 THEN "\r"
    ELSE "U+00" \o HexDigits[(n \div 16) + 1] \o HexDigits[(n % 16) + 1]

(***************************************************************************)
(* atob: the forgiving base64 decoding of the HTML standard                *)
(***************************************************************************)

B64Val == [c \in Range(B64Alphabet) |-> (CHOOSE k \in 1..64 : B64Alphabet[k] = c) - 1]

\* The data atob decodes: ASCII whitespace removed, then one or two trailing
\* "=" removed when the length is a multiple of four.
AtobData(data) ==
    LET d == StripWhiteSpace(data)
        n == Len(d)
    IN  IF n % 4 = 0 /\ n >= 1 /\ d[n] = "="
        THEN IF n >= 2 /\ d[n - 1] = "=" THEN SubSeq(d, 1, n - 2) ELSE SubSeq(d, 1, n - 1)
        ELSE d

\* atob throws InvalidCharacterError.
AtobThrows(data) ==
    LET d == AtobData(data)
    IN  \/ Len(d) % 4 = 1
        \/ \E k \in 1..Len(d) : d[k] \notin DOMAIN B64Val

\* The bytes of one group of 2, 3 or 4 base64 characters, as characters.
AtobGroup(g) ==
    LET v(k) == IF k <= Len(g) THEN B64Val[g[k]] ELSE 0
        bits == v(1) * 262144 + v(2) * 4096 + v(3) * 64 + v(4)
        b1 == FromCharCode(bits \div 65536)
        b2 == FromCharCode((bits \div 256) % 256)
        b3 == FromCharCode(bits % 256)
    IN  IF Len(g) = 4 THEN <<b1, b2, b3>>
        ELSE IF Len(g) = 3 THEN <<b1, b2>>
        ELSE <<b1>>

RECURSIVE AtobDecode(_)
AtobDecode(d) ==
    IF Len(d) = 0 THEN <<>>
    ELSE IF Len(d) <= 4 THEN AtobGroup(d)
    ELSE AtobGroup(SubSeq(d, 1, 4)) \o AtobDecode(From(d, 5))

\* The value atob returns when it does not throw.
atob(data) == AtobDecode(AtobData(data))

(***************************************************************************)
(* decodeContent                                                           *)
(***************************************************************************)

BASE64 == <<"b","a","s","e","6","4">>
\* "quoted-printable"
QUOTED_PRINTABLE == <<"q","u","o","t","e","d","-","p","r","i","n","t","a","b","l","e">>

\* "0123456789abcdef"
HexLower == <<"0","1","2","3","4","5","6","7","8","9","a","b","c","d","e","f">>
\* [0-9A-Fa-f]
IsHex(c) == c \in Range(HexDigits) \cup Range(HexLower)
\* parseInt(c, 16) of one hexadecimal digit.
HexVal(c) == (CHOOSE k \in 1..16 : HexDigits[k] = c \/ HexLower[k] = c) - 1

\* s.replace(/=\r\n/g, ""): the soft line breaks removed.
RECURSIVE RemoveSoftBreaks(_, _)
RemoveSoftBreaks(s, p) ==
    IF p > Len(s) THEN <<>>
    ELSE IF MatchLit(s, p, <<"=","\r","\n">>) THEN RemoveSoftBreaks(s, p + 3)
    ELSE <<s[p]>> \o RemoveSoftBreaks(s, p + 1)

\* s.replace(/=([0-9A-Fa-f]{2})/g, ...): every =XX replaced, left to right, by
\* the character whose code is XX.
RECURSIVE ReplaceEscapes(_, _)
ReplaceEscapes(s, p) ==
    IF p > Len(s) THEN <<>>
    ELSE IF s[p] = "=" /\ p + 2 <= Len(s) /\ IsHex(s[p + 1]) /\ IsHex(s[p + 2])
         THEN <<FromCharCode(16 * HexVal(s[p + 1]) + HexVal(s[p + 2]))>> \o ReplaceEscapes(s, p + 3)
         ELSE <<s[p]>> \o ReplaceEscapes(s, p + 1)

QuotedPrintableDecode(s) == ReplaceEscapes(RemoveSoftBreaks(s, 1), 1)

\* A slip: the catch block returns the text atob was given.
Base64Fallback_Stripped(encodedText) == StripWhiteSpace(encodedText)

\* What the catch block of the base64 branch returns.
Base64Fallback(encodedText) == encodedText

\* decodeContent(encodedText, transferEncoding); an absent transferEncoding is <<>>.
decodeContent(encodedText, transferEncoding) ==
    LET encoding == toLowerCase(transferEncoding)
    IN  IF encodedText = <<>> THEN <<>>
        ELSE IF encoding = BASE64
             THEN IF AtobThrows(StripWhiteSpace(encodedText))
                  THEN Base64Fallback(encodedText)
                  ELSE atob(StripWhiteSpace(encodedText))
        ELSE IF encoding = QUOTED_PRINTABLE
             THEN QuotedPrintableDecode(encodedText)
        ELSE encodedText

(***************************************************************************)
(* extractEmailBody: the header and body of the message                    *)
(***************************************************************************)

\* A slip: the separator searched for is one CRLF.
bodySeparatorIndex_SingleCRLF(raw) == IndexOf(raw, CRLF)

\* rawEmailContent.indexOf("\r\n\r\n"), 0 for -1.
bodySeparatorIndex(raw) == IndexOf(raw, CRLFCRLF)
initialHeaders(raw) == SubSeq(raw, 1, bodySeparatorIndex(raw) - 1)
rawBodyContent(raw) == From(raw, bodySeparatorIndex(raw) + 4)

\* [a-zA-Z0-9._-]
SubtypeChars == Range(UpperChars) \cup Range(LowerChars) \cup Range(DigitChars) \cup {".", "_", "-"}
\* The complement of [^"\s]
QuoteOrSpace == WhiteSpace \cup {"\""}

\* /^Content-Type:\s*multipart\/[a-zA-Z0-9._-]+;\s*boundary="?([^"\s]+)"?/im
\* tried at position p: its group 1, or <<>> when it does not match there.
\* Every quantifier is followed by a character outside its class, so the
\* greedy run is the only one that can match.
MultipartMatchAt(s, p) ==
    LET b == SpanEnd(s, p + 13, WhiteSpace)
        c == b + 10
        d == SpanEnd(s, c, SubtypeChars)
        e == SpanEnd(s, d + 1, WhiteSpace)
        f == e + 9
        g == IF f <= Len(s) /\ s[f] = "\"" THEN f + 1 ELSE f
        h == SpanEndNot(s, g, QuoteOrSpace)
    IN  IF /\ (p = 1 \/ s[p - 1] \in LineTerminators)
           /\ MatchLitCI(s, p, <<"c","o","n","t","e","n","t","-","t","y","p","e",":">>)
           /\ MatchLitCI(s, b, <<"m","u","l","t","i","p","a","r","t","/">>)
           /\ d > c
           /\ d <= Len(s)
           /\ s[d] = ";"
           /\ MatchLitCI(s, e, <<"b","o","u","n","d","a","r","y","=">>)
           /\ h > g
        THEN SubSeq(s, g, h - 1)
        ELSE <<>>

\* contentTypeHeaderMatch[1] of the leftmost match; <<>> when match returns null.
contentTypeHeaderMatch(headers) ==
    LET hits == {p \in 1..Len(headers) : MultipartMatchAt(headers, p) # <<>>}
    IN  IF hits = {} THEN <<>> ELSE MultipartMatchAt(headers, Min(hits))

\* name:\s*([^stop]+) tried at position p, letter case ignored: where group 1
\* starts, 0 when there is no match at p. \s* is greedy and gives characters
\* back until the character after it is outside stop.
HeaderGroupStart(s, p, name, stop) ==
    LET a == p + Len(name)
        b == SpanEnd(s, a, WhiteSpace)
        ks == {k \in a..b : k <= Len(s) /\ s[k] \notin stop}
    IN  IF MatchLitCI(s, p, name) /\ ks # {} THEN Max(ks) ELSE 0

\* Group 1 of the leftmost match of name:\s*([^stop]+) in s; <<>> for no match.
HeaderGroup(s, name, stop) ==
    LET hits == {p \in 1..Len(s) : HeaderGroupStart(s, p, name, stop) # 0}
        g == HeaderGroupStart(s, Min(hits), name, stop)
    IN  IF hits = {} THEN <<>> ELSE SubSeq(s, g, SpanEndNot(s, g, stop) - 1)

\* /Content-Type:\s*([^;]+)(?:;\s*charset="?([^"\s]+)"?)?/im, group 1 in lower
\* case; the charset group is read by nothing.
partContentType(partHeaders) ==
    toLowerCase(HeaderGroup(partHeaders, <<"c","o","n","t","e","n","t","-","t","y","p","e",":">>, {";"}))

\* /Content-Transfer-Encoding:\s*([^\r\n]+)/im, group 1 in lower case.
transferEncodingOf(headers) ==
    toLowerCase(HeaderGroup(headers, <<"c","o","n","t","e","n","t","-","t","r","a","n","s","f","e",
            "r","-","e","n","c","o","d","i","n","g",":">>, LineTerminators))

(***************************************************************************)
(* The boundary pattern and the split                                      *)
(***************************************************************************)

\* The boundary is pasted into the pattern as it is: "." is the wildcard and
\* "(" opens a group. A boundary of the model holds letters, digits, "." and
\* "(" only, so a pattern that compiles holds no group.
ParenDepth(boundary, n) ==
    Cardinality({k \in 1..n : boundary[k] = "("}) - Cardinality({k \in 1..n : boundary[k] = ")"})

\* new RegExp(...) throws SyntaxError: a group is not closed or not opened.
RegExpThrows(boundary) ==
    \/ ParenDepth(boundary, Len(boundary)) # 0
    \/ \E n \in 1..Len(boundary) : ParenDepth(boundary, n) < 0

AtomMatches(atom, c) == IF atom = "." THEN c \notin LineTerminators ELSE atom = c

\* (?:\r\n)?--boundary(?:--)?(?:\r\n)? tried at position q: the position after
\* the match, 0 when it does not match there.
BoundaryMatchEnd(s, q, boundary) ==
    LET a == IF MatchLit(s, q, CRLF) THEN q + 2 ELSE q
        b == a + 2 + Len(boundary)
        c == IF MatchLit(s, b, <<"-","-">>) THEN b + 2 ELSE b
        d == IF MatchLit(s, c, CRLF) THEN c + 2 ELSE c
    IN  IF /\ MatchLit(s, a, <<"-","-">>)
           /\ b - 1 <= Len(s)
           /\ \A k \in 1..Len(boundary) : AtomMatches(boundary[k], s[a + 1 + k])
        THEN d
        ELSE 0

\* String.prototype.split with the boundary pattern: p is the end of the last
\* delimiter; the next delimiter is the leftmost match at or after p.
RECURSIVE SplitFrom(_, _, _)
SplitFrom(s, boundary, p) ==
    LET hits == {q \in p..Len(s) : BoundaryMatchEnd(s, q, boundary) # 0}
    IN  IF hits = {} THEN <<From(s, p)>>
        ELSE <<SubSeq(s, p, Min(hits) - 1)>>
             \o SplitFrom(s, boundary, BoundaryMatchEnd(s, Min(hits), boundary))

\* rawBodyContent.split(boundaryRegex)
SplitParts(body, boundary) == SplitFrom(body, boundary, 1)

(***************************************************************************)
(* One part of the walk                                                    *)
(***************************************************************************)

partHeadersEnd(part) == IndexOf(part, CRLFCRLF)
partHeaders(part) == SubSeq(part, 1, partHeadersEnd(part) - 1)
partBody(part) == From(part, partHeadersEnd(part) + 4)

\* The two "continue" of the loop: the segment is blank or has no CRLF CRLF.
PartSkipped(part) == Trim(part) = <<>> \/ partHeadersEnd(part) = 0

TEXT_PLAIN == <<"t","e","x","t","/","p","l","a","i","n">>
TEXT_HTML == <<"t","e","x","t","/","h","t","m","l">>

IsPlainPart(part) == ~PartSkipped(part) /\ Includes(partContentType(partHeaders(part)), TEXT_PLAIN)
IsHtmlPart(part) ==
    /\ ~PartSkipped(part)
    /\ ~Includes(partContentType(partHeaders(part)), TEXT_PLAIN)
    /\ Includes(partContentType(partHeaders(part)), TEXT_HTML)

\* decodeContent(partBody, transferEncoding) of a part.
PartDecoded(part) == decodeContent(partBody(part), transferEncodingOf(partHeaders(part)))

\* A slip: the text/plain branch has no break.
PartStep_NoBreak(st, part) ==
    IF PartSkipped(part) THEN st
    ELSE IF IsPlainPart(part) THEN [st EXCEPT !.plain = PartDecoded(part)]
    ELSE IF IsHtmlPart(part) THEN [st EXCEPT !.html = PartDecoded(part)]
    ELSE st

\* A slip: a text/html part is kept only while there is no HTML candidate.
PartStep_FirstHtmlKept(st, part) ==
    IF PartSkipped(part) THEN st
    ELSE IF IsPlainPart(part) THEN [st EXCEPT !.plain = PartDecoded(part), !.stop = TRUE]
    ELSE IF IsHtmlPart(part) /\ st.html = <<>> THEN [st EXCEPT !.html = PartDecoded(part)]
    ELSE st

\* A slip: a segment without CRLF CRLF ends the loop (break for continue).
PartStep_BreakOnUnseparated(st, part) ==
    IF Trim(part) = <<>> THEN st
    ELSE IF partHeadersEnd(part) = 0 THEN [st EXCEPT !.stop = TRUE]
    ELSE IF IsPlainPart(part) THEN [st EXCEPT !.plain = PartDecoded(part), !.stop = TRUE]
    ELSE IF IsHtmlPart(part) THEN [st EXCEPT !.html = PartDecoded(part)]
    ELSE st

\* The body of the loop on one part: st holds plainTextBody, htmlBody and
\* whether the loop has hit its break.
PartStep(st, part) ==
    IF PartSkipped(part) THEN st
    ELSE IF IsPlainPart(part) THEN [st EXCEPT !.plain = PartDecoded(part), !.stop = TRUE]
    ELSE IF IsHtmlPart(part) THEN [st EXCEPT !.html = PartDecoded(part)]
    ELSE st

\* htmlBody.replace(/<[^>]*>?/gm, " ")
RECURSIVE StripTagsFrom(_, _)
StripTagsFrom(s, p) ==
    IF p > Len(s) THEN <<>>
    ELSE IF s[p] = "<"
         THEN LET e == SpanEndNot(s, p + 1, {">"})
              IN  <<" ">> \o StripTagsFrom(s, IF e <= Len(s) THEN e + 1 ELSE e)
         ELSE <<s[p]>> \o StripTagsFrom(s, p + 1)

StripTags(s) == StripTagsFrom(s, 1)

\* The value the function returns from plainTextBody and htmlBody.
Resolution(plain, html) ==
    IF Trim(plain) # <<>> THEN Trim(plain)
    ELSE IF Trim(html) # <<>> THEN Trim(StripTags(html))
    ELSE <<>>

(***************************************************************************)
(* The messages the model runs on                                          *)
(***************************************************************************)

\* The largest number of boundary-delimited parts of a generated message.
MaxParts == 2
\* The longest text given to decodeContent on its own.
MaxTextLen == 3

\* Part texts: text/plain, text/html and other parts, with and without a
\* transfer encoding, with a blank body, and two malformed segments.
\* "Content-Type: text/plain\r\n\r\nhi"
PlainHi == <<"C","o","n","t","e","n","t","-","T","y","p","e",":"," ","t","e","x","t","/","p","l",
        "a","i","n","\r","\n","\r","\n","h","i">>
\* "Content-Type: text/plain; charset=utf-8\r\nContent-Transfer-Encoding: quoted-printable\r\n\r\nCaf=C3=A9"
PlainQP == <<"C","o","n","t","e","n","t","-","T","y","p","e",":"," ","t","e","x","t","/","p","l",
        "a","i","n",";"," ","c","h","a","r","s","e","t","=","u","t","f","-","8","\r","\n","C","o",
        "n","t","e","n","t","-","T","r","a","n","s","f","e","r","-","E","n","c","o","d","i","n","g",
        ":"," ","q","u","o","t","e","d","-","p","r","i","n","t","a","b","l","e","\r","\n","\r","\n",
        "C","a","f","=","C","3","=","A","9">>
\* "Content-Type: text/plain\r\n\r\n "
PlainBlank == <<"C","o","n","t","e","n","t","-","T","y","p","e",":"," ","t","e","x","t","/","p","l",
        "a","i","n","\r","\n","\r","\n"," ">>
\* "Content-Type: text/html\r\n\r\n<p>Hi <b>there</b></p>"
HtmlHi == <<"C","o","n","t","e","n","t","-","T","y","p","e",":"," ","t","e","x","t","/","h","t","m",
        "l","\r","\n","\r","\n","<","p",">","H","i"," ","<","b",">","t","h","e","r","e","<","/","b",
        ">","<","/","p",">">>
\* "Content-Type: Text/HTML\r\nContent-Transfer-Encoding: base64\r\n\r\nPGk+eDwvaT4="
HtmlB64 == <<"C","o","n","t","e","n","t","-","T","y","p","e",":"," ","T","e","x","t","/","H","T",
        "M","L","\r","\n","C","o","n","t","e","n","t","-","T","r","a","n","s","f","e","r","-","E",
        "n","c","o","d","i","n","g",":"," ","b","a","s","e","6","4","\r","\n","\r","\n","P","G","k",
        "+","e","D","w","v","a","T","4","=">>
\* "Content-Type: text/html\r\n\r\n "
HtmlBlank == <<"C","o","n","t","e","n","t","-","T","y","p","e",":"," ","t","e","x","t","/","h","t",
        "m","l","\r","\n","\r","\n"," ">>
\* "Content-Type: image/png\r\n\r\nAAAA"
ImagePart == <<"C","o","n","t","e","n","t","-","T","y","p","e",":"," ","i","m","a","g","e","/","p",
        "n","g","\r","\n","\r","\n","A","A","A","A">>
\* "Content-Type: text/plain"
NoSeparatorPart == <<"C","o","n","t","e","n","t","-","T","y","p","e",":"," ","t","e","x","t","/",
        "p","l","a","i","n">>
BlankPart == <<" ">>

PartTexts ==
    {PlainHi, PlainQP, PlainBlank, HtmlHi, HtmlB64, HtmlBlank, ImagePart, NoSeparatorPart, BlankPart}

\* Top-level headers that declare a multipart body: a plain one; one folded,
\* quoted, in other letter case and with the wildcard "." in the boundary; one
\* whose boundary "(b" holds an open group.
\* "Content-Type: multipart/alternative; boundary=b"
TopAlternative == <<"C","o","n","t","e","n","t","-","T","y","p","e",":"," ","m","u","l","t","i","p",
        "a","r","t","/","a","l","t","e","r","n","a","t","i","v","e",";"," ","b","o","u","n","d","a",
        "r","y","=","b">>
\* "Subject: x\r\ncontent-type: Multipart/Mixed;\r\n boundary="b.1""
TopFolded == <<"S","u","b","j","e","c","t",":"," ","x","\r","\n","c","o","n","t","e","n","t","-",
        "t","y","p","e",":"," ","M","u","l","t","i","p","a","r","t","/","M","i","x","e","d",";",
        "\r","\n"," ","b","o","u","n","d","a","r","y","=","\"","b",".","1","\"">>
\* "Content-Type: multipart/mixed; boundary="(b""
TopOpenGroup == <<"C","o","n","t","e","n","t","-","T","y","p","e",":"," ","m","u","l","t","i","p",
        "a","r","t","/","m","i","x","e","d",";"," ","b","o","u","n","d","a","r","y","=","\"","(",
        "b","\"">>

\* Each with the boundary it declares.
MultipartTops ==
    { [headers |-> TopAlternative, boundary |-> <<"b">>],
      [headers |-> TopFolded, boundary |-> <<"b",".","1">>],
      [headers |-> TopOpenGroup, boundary |-> <<"(","b">>] }

\* The body of a multipart message: each part after a delimiter line, and
\* the closing delimiter.
RECURSIVE JoinParts(_, _)
JoinParts(segs, boundary) ==
    IF segs = <<>> THEN <<"-","-">> \o boundary \o <<"-","-","\r","\n">>
    ELSE <<"-","-">> \o boundary \o CRLF \o Head(segs) \o CRLF \o JoinParts(Tail(segs), boundary)

\* The sequences over S of length up to n.
SeqsUpTo(S, n) == UNION {[1..k -> S] : k \in 0..n}

MultipartMessages ==
    {top.headers \o CRLFCRLF \o JoinParts(segs, top.boundary) :
        top \in MultipartTops, segs \in SeqsUpTo(PartTexts, MaxParts)}

\* Top-level headers that declare no multipart body: no Content-Type, a
\* transfer encoding, and a multipart Content-Type whose boundary is not its
\* first parameter.
TopSubject == <<"S","u","b","j","e","c","t",":"," ","h","i">>
\* "Content-Transfer-Encoding: quoted-printable"
TopQuotedPrintable == <<"C","o","n","t","e","n","t","-","T","r","a","n","s","f","e","r","-","E","n",
        "c","o","d","i","n","g",":"," ","q","u","o","t","e","d","-","p","r","i","n","t","a","b","l",
        "e">>
\* "Content-Type: text/plain\r\nContent-Transfer-Encoding: BASE64"
TopBase64 == <<"C","o","n","t","e","n","t","-","T","y","p","e",":"," ","t","e","x","t","/","p","l",
        "a","i","n","\r","\n","C","o","n","t","e","n","t","-","T","r","a","n","s","f","e","r","-",
        "E","n","c","o","d","i","n","g",":"," ","B","A","S","E","6","4">>
\* "Content-Type: multipart/mixed; charset=x; boundary=b"
TopBoundarySecond == <<"C","o","n","t","e","n","t","-","T","y","p","e",":"," ","m","u","l","t","i",
        "p","a","r","t","/","m","i","x","e","d",";"," ","c","h","a","r","s","e","t","=","x",";"," ",
        "b","o","u","n","d","a","r","y","=","b">>

FlatTops == {TopSubject, TopQuotedPrintable, TopBase64, TopBoundarySecond}

\* Bodies without part structure; "aGVsbG8=" is the base64 of "hello", "a!"
\* is not base64.
BodyCafe == <<"C","a","f","=","C","3","=","A","9">>
BodyHelloBase64 == <<"a","G","V","s","b","G","8","=">>
\* "--b\r\n<i>x</i>\r\n--b--"
BodyDelimited == <<"-","-","b","\r","\n","<","i",">","x","<","/","i",">","\r","\n","-","-","b","-",
        "-">>

FlatBodies == { <<>>, <<" ">>, <<"h","i","\r","\n">>, BodyCafe, BodyHelloBase64, <<"a","!">>, BodyDelimited }

\* Every such body under every top-level header; under a multipart header a
\* non-empty body is walked as the one segment it is.
FlatMessages ==
    {top \o CRLFCRLF \o body : top \in FlatTops \cup {m.headers : m \in MultipartTops},
                                body \in FlatBodies}

\* Inputs with no CRLF CRLF at all.
\* " hi there\r\n"
BareText == <<" ","h","i"," ","t","h","e","r","e","\r","\n">>
\* "Content-Transfer-Encoding: base64\r\naGk="
BareHeaderLine == <<"C","o","n","t","e","n","t","-","T","r","a","n","s","f","e","r","-","E","n","c",
        "o","d","i","n","g",":"," ","b","a","s","e","6","4","\r","\n","a","G","k","=">>
\* " <b>x</b>=41\r\n"
BareTagged == <<" ","<","b",">","x","<","/","b",">","=","4","1","\r","\n">>
\* "Content-Type: multipart/mixed; boundary=b\r\n--b\r\nhi\r\n--b--\r\n"
BareMultipart == <<"C","o","n","t","e","n","t","-","T","y","p","e",":"," ","m","u","l","t","i","p",
        "a","r","t","/","m","i","x","e","d",";"," ","b","o","u","n","d","a","r","y","=","b","\r",
        "\n","-","-","b","\r","\n","h","i","\r","\n","-","-","b","-","-","\r","\n">>

BareMessages == { <<>>, <<" ","\r","\n">>, BareText, BareHeaderLine, BareTagged, BareMultipart }

Messages == MultipartMessages \cup FlatMessages \cup BareMessages

(***************************************************************************)
(* State                                                                   *)
(***************************************************************************)

VARIABLES
    pc,                \* where extractEmailBody stands
    rawEmailContent,   \* its argument
    plainTextBody,     \* its locals
    htmlBody,
    parts,
    partIndex,         \* the part the for-of loop is at
    result,            \* the string it returned
    error,             \* the exception it threw, "none" when it did not
    hpc,               \* where the email handler stands, "none" outside of it
    env,               \* DISCORD_BOT_TOKEN and DISCORD_CHANNEL_ID
    message,           \* the handler's message: its headers and raw stream
    emailBodySnippet,
    requests,          \* the requests fetch was called with, in order
    response,          \* how the fetch ended
    encodedText,       \* the arguments and the result of a decodeContent
    transferEncoding,  \*   call of its own
    decoded,
    memo               \* the outcome of every finished call, by argument

extractVars == <<pc, rawEmailContent, plainTextBody, htmlBody, parts, partIndex, result, error>>
handlerVars == <<hpc, env, message, emailBodySnippet, requests, response>>
decodeVars == <<encodedText, transferEncoding, decoded>>
vars == <<extractVars, handlerVars, decodeVars, memo>>

NoSnippet == [label |-> "", text |-> <<>>, suffix |-> ""]
NoMessage == [headers |-> "none", raw |-> <<>>, readable |-> TRUE]
NoEnv == [DISCORD_BOT_TOKEN |-> "", DISCORD_CHANNEL_ID |-> ""]

HandlerIdle ==
    /\ hpc = "none"
    /\ env = NoEnv
    /\ message = NoMessage
    /\ emailBodySnippet = NoSnippet
    /\ requests = <<>>
    /\ response = "none"

DecodeIdle ==
    /\ encodedText = <<>>
    /\ transferEncoding = <<>>
    /\ decoded = <<>>

ExtractIdle ==
    /\ pc = "idle"
    /\ rawEmailContent = <<>>
    /\ plainTextBody = <<>>
    /\ htmlBody = <<>>
    /\ parts = <<>>
    /\ partIndex = 0
    /\ result = <<>>
    /\ error = "none"

\* extractEmailBody is called on one message.
Init ==
    /\ pc = "call"
    /\ rawEmailContent \in Messages
    /\ plainTextBody = <<>>
    /\ htmlBody = <<>>
    /\ parts = <<>>
    /\ partIndex = 0
    /\ result = <<>>
    /\ error = "none"
    /\ HandlerIdle
    /\ DecodeIdle
    /\ memo = {}

(***************************************************************************)
(* extractEmailBody, step by step                                          *)
(***************************************************************************)

\* A slip: the candidates are not function locals and keep their last values.
Enter_KeepCandidates ==
    /\ pc = "call"
    /\ pc' = "separator"
    /\ parts' = <<>>
    /\ partIndex' = 0
    /\ result' = <<>>
    /\ error' = "none"
    /\ UNCHANGED <<rawEmailContent, plainTextBody, htmlBody, handlerVars, decodeVars, memo>>

\* The function is entered: let plainTextBody = ""; let htmlBody = "";
Enter ==
    /\ pc = "call"
    /\ pc' = "separator"
    /\ plainTextBody' = <<>>
    /\ htmlBody' = <<>>
    /\ parts' = <<>>
    /\ partIndex' = 0
    /\ result' = <<>>
    /\ error' = "none"
    /\ UNCHANGED <<rawEmailContent, handlerVars, decodeVars, memo>>

\* No CRLF CRLF: the whole input, trimmed, is returned.
NoSeparator ==
    /\ pc = "separator"
    /\ bodySeparatorIndex(rawEmailContent) = 0
    /\ result' = Trim(rawEmailContent)
    /\ pc' = "returned"
    /\ UNCHANGED <<rawEmailContent, plainTextBody, htmlBody, parts, partIndex, error,
                   handlerVars, decodeVars, memo>>

\* if (contentTypeHeaderMatch && rawBodyContent)
IsMultipart(raw) ==
    /\ bodySeparatorIndex(raw) # 0
    /\ contentTypeHeaderMatch(initialHeaders(raw)) # <<>>
    /\ rawBodyContent(raw) # <<>>

\* The headers are matched and the branch is chosen.
MatchHeaders ==
    /\ pc = "separator"
    /\ bodySeparatorIndex(rawEmailContent) # 0
    /\ pc' = IF IsMultipart(rawEmailContent) THEN "multipart" ELSE "singlepart"
    /\ UNCHANGED <<rawEmailContent, plainTextBody, htmlBody, parts, partIndex, result, error,
                   handlerVars, decodeVars, memo>>

\* The boundary pattern is built, which may throw, and the body is split.
SplitBody ==
    /\ pc = "multipart"
    /\ LET boundary == contentTypeHeaderMatch(initialHeaders(rawEmailContent))
       IN  IF RegExpThrows(boundary)
           THEN /\ error' = "SyntaxError"
                /\ pc' = "threw"
                /\ UNCHANGED <<parts, partIndex>>
           ELSE /\ parts' = SplitParts(rawBodyContent(rawEmailContent), boundary)
                /\ partIndex' = 1
                /\ pc' = "walk"
                /\ error' = error
    /\ UNCHANGED <<rawEmailContent, plainTextBody, htmlBody, result, handlerVars, decodeVars, memo>>

\* One turn of the loop over the parts.
WalkPart ==
    /\ pc = "walk"
    /\ partIndex <= Len(parts)
    /\ LET st == PartStep([plain |-> plainTextBody, html |-> htmlBody, stop |-> FALSE],
                          parts[partIndex])
       IN  /\ plainTextBody' = st.plain
           /\ htmlBody' = st.html
           /\ IF st.stop
              THEN pc' = "resolve" /\ partIndex' = partIndex
              ELSE pc' = "walk" /\ partIndex' = partIndex + 1
    /\ UNCHANGED <<rawEmailContent, parts, result, error, handlerVars, decodeVars, memo>>

\* The loop runs out of parts.
WalkEnd ==
    /\ pc = "walk"
    /\ partIndex > Len(parts)
    /\ pc' = "resolve"
    /\ UNCHANGED <<rawEmailContent, plainTextBody, htmlBody, parts, partIndex, result, error,
                   handlerVars, decodeVars, memo>>

\* The single-part branch: the whole body is the plain-text candidate.
SinglePart ==
    /\ pc = "singlepart"
    /\ plainTextBody' = decodeContent(rawBodyContent(rawEmailContent),
                                      transferEncodingOf(initialHeaders(rawEmailContent)))
    /\ pc' = "resolve"
    /\ UNCHANGED <<rawEmailContent, htmlBody, parts, partIndex, result, error,
                   handlerVars, decodeVars, memo>>

\* The plain text, else the HTML stripped of its tags, else "".
Resolve ==
    /\ pc = "resolve"
    /\ result' = Resolution(plainTextBody, htmlBody)
    /\ pc' = "returned"
    /\ UNCHANGED <<rawEmailContent, plainTextBody, htmlBody, parts, partIndex, error,
                   handlerVars, decodeVars, memo>>

Next ==
    \/ Enter
    \/ NoSeparator
    \/ MatchHeaders
    \/ SplitBody
    \/ WalkPart
    \/ WalkEnd
    \/ SinglePart
    \/ Resolve

Spec == Init /\ [][Next]_vars

(***************************************************************************)
(* Properties of extractEmailBody                                          *)
(***************************************************************************)

\* The loop over the parts has started: the body was split.
Walked == pc \in {"walk", "resolve", "returned"} /\ parts # <<>>

PlainIndexes == {k \in 1..Len(parts) : IsPlainPart(parts[k])}
HtmlIndexes == {k \in 1..Len(parts) : IsHtmlPart(parts[k])}

\* C1: extractEmailBody never throws, whatever the input: every malformed
\* input, and every boundary the Content-Type pattern can capture, ends in a
\* returned string.
C1_NeverThrows == pc # "threw" /\ error = "none"

\* C2: the message has a text/plain part and a text/html part and no
\* text/html part comes before the first text/plain part.
C2_PlainBeforeHtml ==
    /\ Walked
    /\ PlainIndexes # {}
    /\ \E k \in HtmlIndexes : k > Min(PlainIndexes)
    /\ \A k \in HtmlIndexes : k > Min(PlainIndexes)

\* C2: with a text/plain part before the text/html parts, the walk never goes
\* past the first text/plain part, the HTML candidate stays empty, and the
\* value returned is that part's decoded content, trimmed.
C2_PlainFirstWins ==
    C2_PlainBeforeHtml =>
        /\ partIndex <= Min(PlainIndexes)
        /\ htmlBody = <<>>
        /\ pc = "returned" => result = Trim(PartDecoded(parts[Min(PlainIndexes)]))

\* C2 happens: a quoted-printable text/plain part before a text/html part has
\* been returned decoded.
C2_Witness ==
    /\ C2_PlainBeforeHtml
    /\ pc = "returned"
    /\ result # <<>>
    /\ result # Trim(partBody(parts[Min(PlainIndexes)]))

\* s with every run of whitespace replaced by one space.
CollapseWhiteSpace(s) ==
    LET idx == SelectSeq([k \in 1..Len(s) |-> k],
                         LAMBDA k : s[k] \notin WhiteSpace \/ k = 1 \/ s[k - 1] \notin WhiteSpace)
    IN  [j \in 1..Len(idx) |-> IF s[idx[j]] \in WhiteSpace THEN " " ELSE s[idx[j]]]

\* The one part of a message whose only part is a text/html part.
OnlyHtmlPart ==
    LET real == {k \in 1..Len(parts) : ~PartSkipped(parts[k])}
    IN  IF Walked /\ Cardinality(real) = 1 /\ real \subseteq HtmlIndexes
        THEN CHOOSE k \in real : TRUE
        ELSE 0

\* C3: for a message whose only part is a text/html part the value returned
\* is the decoded HTML with its tags stripped, its whitespace collapsed and
\* trimmed; for the body "<p>Hi <b>there</b></p>" it is "Hi there".
C3_HtmlStrippedCollapsed ==
    (pc = "returned" /\ OnlyHtmlPart # 0) =>
        /\ result = Trim(CollapseWhiteSpace(StripTags(PartDecoded(parts[OnlyHtmlPart]))))
        /\ partBody(parts[OnlyHtmlPart]) = <<"<","p",">","H","i"," ","<","b",">","t","h","e","r",
                "e","<","/","b",">","<","/","p",">">> => result = <<"H","i"," ","t","h","e","r","e">>

\* The message is single-part, quoted-printable, with the body "Caf=C3=A9".
C4_CafeMessage ==
    /\ bodySeparatorIndex(rawEmailContent) # 0
    /\ ~IsMultipart(rawEmailContent)
    /\ transferEncodingOf(initialHeaders(rawEmailContent)) = QUOTED_PRINTABLE
    /\ rawBodyContent(rawEmailContent) = <<"C","a","f","=","C","3","=","A","9">>

\* C4: a single-part quoted-printable message with the body "Caf=C3=A9" is
\* returned as the four characters "Caf" and U+00E9.
C4_CafeDecoded ==
    (pc = "returned" /\ C4_CafeMessage) => result = <<"C", "a", "f", "U+00E9">>

\* C6: an input with no CRLF CRLF is returned whole and trimmed; no header is
\* parsed, nothing is decoded and no tag is stripped on the way.
C6_NoSeparatorTrimmed ==
    IndexOf(rawEmailContent, CRLFCRLF) = 0 =>
        /\ pc \in {"call", "separator", "returned"}
        /\ plainTextBody = <<>>
        /\ htmlBody = <<>>
        /\ error = "none"
        /\ pc = "returned" => result = Trim(rawEmailContent)

\* C6 happens: an input with no CRLF CRLF that holds a tag, an =XX escape and
\* outer whitespace has been returned.
C6_Witness ==
    /\ pc = "returned"
    /\ IndexOf(rawEmailContent, CRLFCRLF) = 0
    /\ Includes(result, <<"<","b",">">>)
    /\ Includes(result, <<"=","4","1">>)
    /\ result # rawEmailContent

\* The candidate the claim expects of an HTML-only walk: the last text/html part decoded.
LastHtmlDecoded == PartDecoded(parts[Max(HtmlIndexes)])

\* C8: when the walk reaches no text/plain part, the HTML candidate is the
\* decoded body of the last text/html part, also when that is blank, and the
\* value returned derives from that part alone.
C8_LastHtmlWins ==
    (Walked /\ pc # "walk" /\ PlainIndexes = {} /\ HtmlIndexes # {}) =>
        /\ htmlBody = LastHtmlDecoded
        /\ pc = "returned" =>
              result = IF Trim(LastHtmlDecoded) = <<>> THEN <<>>
                       ELSE Trim(StripTags(LastHtmlDecoded))

\* C8 happens: a blank text/html part after a text/html part with text has
\* made the function return "".
C8_Witness ==
    /\ Walked
    /\ pc = "returned"
    /\ PlainIndexes = {}
    /\ Cardinality(HtmlIndexes) >= 2
    /\ \E k \in HtmlIndexes : Trim(PartDecoded(parts[k])) # <<>>
    /\ result = <<>>

\* A segment that is blank or has no CRLF CRLF.
BlankOrUnseparated(seg) ==
    \/ \A k \in 1..Len(seg) : seg[k] \in WhiteSpace
    \/ \A k \in 1..Len(seg) : ~MatchLit(seg, k, CRLFCRLF)

\* The loop over a list of parts, from the state st, up to its break.
RECURSIVE WalkOver(_, _)
WalkOver(st, ps) ==
    IF ps = <<>> \/ st.stop THEN st
    ELSE WalkOver(PartStep(st, Head(ps)), Tail(ps))

\* The parts the loop is done with.
PartsDone == IF pc = "walk" THEN SubSeq(parts, 1, partIndex - 1) ELSE parts

\* The walk over the parts done so far with every blank or unseparated segment left out.
WalkWithout ==
    WalkOver([plain |-> <<>>, html |-> <<>>, stop |-> FALSE],
             SelectSeq(PartsDone, LAMBDA seg : ~BlankOrUnseparated(seg)))

\* C9: a segment that is blank or has no CRLF CRLF sets no candidate and does
\* not stop the walk: the candidates, and the value returned, are those of the
\* walk over the message without those segments.
C9_SkippedAsAbsent ==
    Walked =>
        /\ plainTextBody = WalkWithout.plain
        /\ htmlBody = WalkWithout.html
        /\ pc = "walk" => ~WalkWithout.stop
        /\ pc = "returned" => result = Resolution(WalkWithout.plain, WalkWithout.html)

\* C9 happens: a segment naming text/plain but without CRLF CRLF came before
\* a text/html part, and the HTML was returned.
C9_Witness ==
    /\ Walked
    /\ pc = "returned"
    /\ result # <<>>
    /\ \E k \in 1..Len(parts) :
          /\ Trim(parts[k]) # <<>>
          /\ IndexOf(parts[k], CRLFCRLF) = 0
          /\ Includes(parts[k], TEXT_PLAIN)
          /\ \E j \in HtmlIndexes : j > k

(***************************************************************************)
(* Repeated calls of extractEmailBody                                      *)
(***************************************************************************)

RepeatMessages ==
    { TopAlternative \o CRLFCRLF \o JoinParts(<<HtmlHi>>, <<"b">>),
      TopAlternative \o CRLFCRLF \o JoinParts(<<ImagePart>>, <<"b">>),
      TopAlternative \o CRLFCRLF \o JoinParts(<<PlainBlank, HtmlB64>>, <<"b">>),
      TopOpenGroup \o CRLFCRLF \o JoinParts(<<PlainHi>>, <<"(","b">>),
      TopQuotedPrintable \o CRLFCRLF \o BodyCafe,
      BareText }

\* How a finished call ended.
Outcome == [pc |-> pc, result |-> result, error |-> error]

InitRepeat ==
    /\ pc = "call"
    /\ rawEmailContent \in RepeatMessages
    /\ plainTextBody = <<>>
    /\ htmlBody = <<>>
    /\ parts = <<>>
    /\ partIndex = 0
    /\ result = <<>>
    /\ error = "none"
    /\ HandlerIdle
    /\ DecodeIdle
    /\ memo = {}

\* The call has ended; its outcome is noted and the function is called again,
\* on the same or on another message.
CallAgain ==
    /\ pc \in {"returned", "threw"}
    /\ memo' = memo \cup {<<rawEmailContent, Outcome>>}
    /\ rawEmailContent' \in RepeatMessages
    /\ pc' = "call"
    /\ UNCHANGED <<plainTextBody, htmlBody, parts, partIndex, result, error, handlerVars, decodeVars>>

NextRepeat == Next \/ CallAgain

SpecRepeat == InitRepeat /\ [][NextRepeat]_vars

(***************************************************************************)
(* decodeContent on its own                                                *)
(***************************************************************************)

DecodeChars == {"a", "Q", "4", "=", "!", " "}
DecodeTexts == SeqsUpTo(DecodeChars, MaxTextLen)
DecodeEncodings ==
    { <<>>, <<"b","a","s","e","6","4">>, <<"B","a","s","e","6","4">>, <<"B","A","S","E","6","4">>, <<"b",
            "a","s","e","6","4"," ">>, <<"q","u","o","t","e","d","-","p","r","i","n","t","a","b",
            "l","e">>, <<"7","b","i","t">> }

InitDecode ==
    /\ pc = "decode"
    /\ rawEmailContent = <<>>
    /\ plainTextBody = <<>>
    /\ htmlBody = <<>>
    /\ parts = <<>>
    /\ partIndex = 0
    /\ result = <<>>
    /\ error = "none"
    /\ HandlerIdle
    /\ encodedText \in DecodeTexts
    /\ transferEncoding \in DecodeEncodings
    /\ decoded = <<>>
    /\ memo = {}

\* decodeContent(encodedText, transferEncoding) runs and returns.
Decode ==
    /\ pc = "decode"
    /\ decoded' = decodeContent(encodedText, transferEncoding)
    /\ pc' = "decoded"
    /\ UNCHANGED <<rawEmailContent, plainTextBody, htmlBody, parts, partIndex, result, error,
                   handlerVars, encodedText, transferEncoding, memo>>

NextDecode == Decode

SpecDecode == InitDecode /\ [][NextDecode]_vars

(***************************************************************************)
(* The email handler                                                       *)
(***************************************************************************)

\* extractedBody.slice(0, 500)
SnippetMax == 500
\* rawBodyFallback.slice(0, 200) and rawEmailContent.slice(0, 200)
FallbackMax == 200

Slice(s, n) == SubSeq(s, 1, IF Len(s) < n THEN Len(s) ELSE n)

Envs ==
    [DISCORD_BOT_TOKEN : {"", "token"}, DISCORD_CHANNEL_ID : {"", "42"}]

\* message.headers: "" stands for a header that is absent.
HeaderSets ==
    { [Subject |-> "Hello", From |-> "a@example.org", To |-> "b@example.org"],
      [Subject |-> "", From |-> "", To |-> ""] }

HandlerMessages ==
    { <<" ","\r","\n">>,
      BareText,
      TopQuotedPrintable \o CRLFCRLF \o BodyCafe,
      TopAlternative \o CRLFCRLF \o JoinParts(<<PlainHi, HtmlHi>>, <<"b">>),
      TopAlternative \o CRLFCRLF \o JoinParts(<<ImagePart>>, <<"b">>),
      TopOpenGroup \o CRLFCRLF \o JoinParts(<<PlainHi>>, <<"(","b">>) }

InitEmail ==
    /\ ExtractIdle
    /\ DecodeIdle
    /\ memo = {}
    /\ hpc = "entry"
    /\ env \in Envs
    /\ message \in [headers : HeaderSets, raw : HandlerMessages, readable : BOOLEAN]
    /\ emailBodySnippet = NoSnippet
    /\ requests = <<>>
    /\ response = "none"

\* message.headers.get(name) || fallback
HeaderOr(name, fallback) == IF message.headers[name] = "" THEN fallback ELSE message.headers[name]

\* The handler starts: without both secrets it logs and returns.
EmailEntry ==
    /\ hpc = "entry"
    /\ IF env.DISCORD_BOT_TOKEN = "" \/ env.DISCORD_CHANNEL_ID = ""
       THEN hpc' = "returned" /\ UNCHANGED emailBodySnippet
       ELSE /\ hpc' = "read"
            /\ emailBodySnippet' = [label |-> "Could not retrieve email body.",
                     text |-> <<>>, suffix |-> ""]
    /\ UNCHANGED <<extractVars, env, message, requests, response, decodeVars, memo>>

\* await new Response(message.raw).text() resolves and extractEmailBody is called.
ReadRaw ==
    /\ hpc = "read"
    /\ message.readable
    /\ rawEmailContent' = message.raw
    /\ pc' = "call"
    /\ hpc' = "extract"
    /\ UNCHANGED <<plainTextBody, htmlBody, parts, partIndex, result, error,
                   env, message, emailBodySnippet, requests, response, decodeVars, memo>>

\* The snippet of the catch block.
ErrorSnippet(name) ==
    [label |-> "Error processing email body: " \o name \o "\n\nRaw Email Start:\n",
     text |-> Slice(rawEmailContent, FallbackMax),
     suffix |-> "...\n"]

\* Reading the raw stream rejects: the catch block sets the snippet.
ReadFails ==
    /\ hpc = "read"
    /\ ~message.readable
    /\ emailBodySnippet' = ErrorSnippet("ReadError")
    /\ hpc' = "post"
    /\ UNCHANGED <<extractVars, env, message, requests, response, decodeVars, memo>>

\* The snippet made of what extractEmailBody returned.
BodySnippet(extractedBody) ==
    IF extractedBody # <<>>
    THEN [label |-> "", text |-> Slice(extractedBody, SnippetMax),
          suffix |-> IF Len(extractedBody) > SnippetMax THEN "...\n\n(Full message truncated)" ELSE ""]
    ELSE IF IndexOf(rawEmailContent, CRLFCRLF) # 0
         THEN [label |-> "(Could not parse main body, showing raw snippet):\n\n",
               text |-> Slice(Trim(rawBodyContent(rawEmailContent)), FallbackMax),
               suffix |-> "...\n"]
         ELSE [label |-> "Could not parse email body (no content after headers).",
               text |-> <<>>, suffix |-> ""]

\* extractEmailBody has returned.
ExtractReturned ==
    /\ hpc = "extract"
    /\ pc = "returned"
    /\ emailBodySnippet' = BodySnippet(result)
    /\ hpc' = "post"
    /\ UNCHANGED <<extractVars, env, message, requests, response, decodeVars, memo>>

\* A slip: the exception of the extraction leaves the handler.
ExtractThrew_Rethrown ==
    /\ hpc = "extract"
    /\ pc = "threw"
    /\ hpc' = "threw"
    /\ UNCHANGED <<extractVars, env, message, emailBodySnippet, requests, response, decodeVars, memo>>

\* extractEmailBody has thrown: the catch block sets the snippet.
ExtractThrew ==
    /\ hpc = "extract"
    /\ pc = "threw"
    /\ emailBodySnippet' = ErrorSnippet(error)
    /\ hpc' = "post"
    /\ UNCHANGED <<extractVars, env, message, requests, response, decodeVars, memo>>

\* The request fetch is called with.
Payload ==
    [channel |-> env.DISCORD_CHANNEL_ID,
     authorization |-> "Bot " \o env.DISCORD_BOT_TOKEN,
     subject |-> HeaderOr("Subject", "No Subject"),
     from |-> HeaderOr("From", "Unknown Sender"),
     to |-> HeaderOr("To", "Unknown Recipient"),
     content |-> emailBodySnippet]

\* fetch is called; it resolves with an ok response, with one that is not ok, or rejects.
Post ==
    /\ hpc = "post"
    /\ requests' = Append(requests, Payload)
    /\ response' \in {"ok", "notOk", "rejected"}
    /\ hpc' = "responded"
    /\ UNCHANGED <<extractVars, env, message, emailBodySnippet, decodeVars, memo>>

\* The response is looked at: the handler returns, or throws what it logged.
Respond ==
    /\ hpc = "responded"
    /\ hpc' = IF response = "ok" THEN "returned" ELSE "threw"
    /\ UNCHANGED <<extractVars, env, message, emailBodySnippet, requests, response, decodeVars, memo>>

NextEmail ==
    \/ EmailEntry
    \/ ReadRaw
    \/ ReadFails
    \/ Next
    \/ ExtractReturned
    \/ ExtractThrew
    \/ Post
    \/ Respond

SpecEmail == InitEmail /\ [][NextEmail]_vars

(***************************************************************************)
(* Properties of decodeContent, of repeated calls and of the handler       *)
(***************************************************************************)

\* decodeContent was given a non-empty text under the encoding base64, in
\* any letter case, and atob rejects the text with its whitespace removed.
C5_InvalidBase64 ==
    /\ toLowerCase(transferEncoding) = BASE64
    /\ encodedText # <<>>
    /\ AtobThrows(StripWhiteSpace(encodedText))

\* C5: decodeContent with the encoding base64 on a text that is not valid
\* base64 returns, and returns the text as it was given, whitespace included.
C5_InvalidBase64Unchanged ==
    (pc = "decoded" /\ C5_InvalidBase64) => (decoded = encodedText /\ error = "none")

\* C5 happens: an invalid base64 text that holds whitespace, under an
\* encoding name with capitals, has been returned.
C5_Witness ==
    /\ pc = "decoded"
    /\ C5_InvalidBase64
    /\ transferEncoding # BASE64
    /\ StripWhiteSpace(encodedText) # encodedText
    /\ StripWhiteSpace(encodedText) # <<>>

\* C7: a call of extractEmailBody ends as every earlier call on the same
\* input ended, whatever calls came in between: the same string returned or
\* the same exception thrown.
C7_SameInputSameOutcome ==
    /\ \A m \in memo : \A n \in memo : m[1] = n[1] => m[2] = n[2]
    /\ pc \in {"returned", "threw"} =>
          \A m \in memo : m[1] = rawEmailContent => m[2] = Outcome

\* C7 happens: a call has ended on an input that was called before, with a
\* call on another input, which ended otherwise, in between.
C7_Witness ==
    /\ pc = "returned"
    /\ <<rawEmailContent, Outcome>> \in memo
    /\ htmlBody = <<>>
    /\ \E m \in memo : m[1] # rawEmailContent /\ m[2].result # result /\ m[2].result # <<>>

HandlerEnded == hpc \in {"returned", "threw"}
SecretsMissing == env.DISCORD_BOT_TOKEN = "" \/ env.DISCORD_CHANNEL_ID = ""
\* The try block of the extraction is over: the extraction returned or threw,
\* or the raw message could not be read.
ExtractionOver == pc \in {"returned", "threw"} \/ ~message.readable

\* C10: without both secrets the handler sends nothing and returns; with
\* them it calls fetch once and only once, after the extraction is over
\* however it ended, and it throws exactly when the fetch rejects or the
\* response is not ok.
C10_OnePostAfterExtraction ==
    /\ hpc # "none" => Len(requests) <= 1
    /\ requests # <<>> => (~SecretsMissing /\ ExtractionOver)
    /\ (HandlerEnded /\ SecretsMissing) => (requests = <<>> /\ hpc = "returned")
    /\ (HandlerEnded /\ ~SecretsMissing) =>
          /\ Len(requests) = 1
          /\ hpc = "threw" <=> response \in {"notOk", "rejected"}

\* C10 happens: the extraction threw, the handler posted the fallback snippet
\* all the same and returned.
C10_Witness ==
    /\ hpc = "returned"
    /\ pc = "threw"
    /\ Len(requests) = 1
    /\ response = "ok"

=============================================================================
